---- MODULE Spec2Model ----
(***************************************************************************)
(* Model of prepare_csv.py: handle_file reads a CSV export row by row into *)
(* a list of Line objects (read_text), runs the lint passes over the list  *)
(* and writes an SGML and an HTML rendering.                               *)
(*                                                                         *)
(* A Python str is a sequence of one-character strings.  LineRef objects   *)
(* live in a heap (a sequence of records, an object's identity is its      *)
(* index) because LineRef.increment mutates the object in place.           *)
(***************************************************************************)
EXTENDS Integers, Sequences, FiniteSets, TLC

VARIABLES pc, row, heap, ref, text, longest, path, out, sgml, html, files

vars == <<pc, row, heap, ref, text, longest, path, out, sgml, html, files>>

(* ------------------------------ bounds --------------------------------- *)

\* Maximal number of data rows of the input file.
MaxRows == 3

\* Maximal number of pieces of a line of text examined on its own.
MaxLen == 4

(* ---------------------------- characters ------------------------------- *)

MACRON == "U+0304"

OVERBAR == "U+0305"

COMBINING_NI == "U+2CEF"

SOFT_HYPHEN == "U+00AD"

MIDDLE_DOT == "U+00B7"

\* The code point of each character the model uses.
CodePoint ==
  ("\t" :> 9) @@ ("\n" :> 10) @@ (" " :> 32) @@ ("\"" :> 34) @@ ("(" :> 40)
    @@ (")" :> 41) @@ ("*" :> 42) @@ ("," :> 44) @@ ("-" :> 45) @@ ("." :> 46)
    @@ ("0" :> 48) @@ ("1" :> 49) @@ ("2" :> 50) @@ ("3" :> 51) @@ ("4" :> 52)
    @@ ("5" :> 53) @@ ("6" :> 54) @@ ("7" :> 55) @@ ("8" :> 56) @@ ("9" :> 57)
    @@ ("<" :> 60) @@ ("=" :> 61) @@ (">" :> 62) @@ ("M" :> 77) @@ ("_" :> 95)
    @@ ("a" :> 97) @@ ("c" :> 99) @@ ("d" :> 100) @@ ("e" :> 101)
    @@ ("i" :> 105) @@ ("n" :> 110) @@ ("o" :> 111) @@ ("p" :> 112)
    @@ ("s" :> 115) @@ ("t" :> 116) @@ ("x" :> 120) @@ (SOFT_HYPHEN :> 173)
    @@ (MIDDLE_DOT :> 183) @@ (MACRON :> 772) @@ (OVERBAR :> 773)
    @@ (COMBINING_NI :> 11503)

\* ord(c)
Ord(c) == CodePoint[c]

\* str.isspace() of one character.
IsSpace(c) == c \in {" ", "\t", "\n"}

\* unicodedata.combining(c) is non-zero.
Combining(c) == c \in {MACRON, OVERBAR, COMBINING_NI}

\* str.isprintable() of one character.
IsPrintable(c) == ~(c \in {"\t", "\n", SOFT_HYPHEN})

Digits == {"0", "1", "2", "3", "4", "5", "6", "7", "8", "9"}

DigitVal(c) == Ord(c) - Ord("0")

DigitChar(d) == CHOOSE c \in Digits : DigitVal(c) = d

(* ------------------------------ strings -------------------------------- *)

RECURSIVE Find(_, _, _)
\* str.find(ch, start): offset (from 0) of the first ch at or after start, or -1.
Find(s, ch, start) ==
  IF start >= Len(s) THEN -1
  ELSE IF s[start + 1] = ch THEN start
  ELSE Find(s, ch, start + 1)

\* ch in s
Contains(s, ch) == \E i \in 1..Len(s) : s[i] = ch

\* str.count(ch)
Count(s, ch) == Cardinality({i \in 1..Len(s) : s[i] = ch})

\* str.endswith(ch) for a one-character suffix.
EndsWith(s, ch) == Len(s) > 0 /\ s[Len(s)] = ch

RECURSIVE LStrip(_)
LStrip(s) == IF Len(s) > 0 /\ IsSpace(s[1]) THEN LStrip(Tail(s)) ELSE s

RECURSIVE RStrip(_)
RStrip(s) ==
  IF Len(s) > 0 /\ IsSpace(s[Len(s)]) THEN RStrip(SubSeq(s, 1, Len(s) - 1)) ELSE s

\* str.strip()
Strip(s) == RStrip(LStrip(s))

RECURSIVE ReplaceFrom(_, _, _, _)
\* The rest of s from offset `at` on, with every non-overlapping occurrence
\* of old, left to right, replaced by new.
ReplaceFrom(s, at, old, new) ==
  IF Len(s) - at < Len(old) THEN SubSeq(s, at + 1, Len(s))
  ELSE IF SubSeq(s, at + 1, at + Len(old)) = old
       THEN new \o ReplaceFrom(s, at + Len(old), old, new)
       ELSE <<s[at + 1]>> \o ReplaceFrom(s, at + 1, old, new)

\* str.replace(old, new) for a non-empty old.
Replace(s, old, new) == ReplaceFrom(s, 0, old, new)

RECURSIVE Split(_, _)
\* str.split(sep) for a one-character separator.
Split(s, sep) ==
  LET at == Find(s, sep, 0)
  IN  IF at < 0 THEN <<s>>
      ELSE <<SubSeq(s, 1, at)>> \o Split(SubSeq(s, at + 2, Len(s)), sep)

\* " " * n: the number of blanks printed (a negative count prints none).
Spaces(n) == IF n < 0 THEN 0 ELSE n

Max(a, b) == IF a >= b THEN a ELSE b

RECURSIVE IntToStr(_)
\* The decimal text of a non-negative int, as the f-string formats it.
IntToStr(n) ==
  IF n < 10 THEN <<DigitChar(n)>>
  ELSE IntToStr(n \div 10) \o <<DigitChar(n % 10)>>

\* int(s) succeeds: here, s is a non-empty run of decimal digits.
IsInt(s) == Len(s) > 0 /\ \A i \in 1..Len(s) : s[i] \in Digits

RECURSIVE ToInt(_)
\* int(s) of a run of decimal digits.
ToInt(s) ==
  IF Len(s) = 0 THEN 0
  ELSE 10 * ToInt(SubSeq(s, 1, Len(s) - 1)) + DigitVal(s[Len(s)])

(* ------------------------------ LineRef -------------------------------- *)

\* LineRef(page, line)
LineRef(page, line) == [page |-> page, line |-> line]

\* LineRef.__str__
RefStr(r) == IntToStr(r.page) \o <<".">> \o IntToStr(r.line)

IncrementTwice(r) == [r EXCEPT !.line = @ + 2]

\* LineRef.increment: the value of the object after the call.
Increment(r) == [r EXCEPT !.line = @ + 1]

\* LineRef.from_str returns (does not raise ValueError): the token splits
\* at '.' into exactly two parts and int() accepts both.
Parses(string) ==
  LET parts == Split(string, ".")
  IN  Len(parts) = 2 /\ IsInt(parts[1]) /\ IsInt(parts[2])

\* LineRef.from_str
FromStr(string) ==
  LET parts == Split(string, ".")
  IN  LineRef(ToInt(parts[1]), ToInt(parts[2]))

\* Line(ref, coptic, note); ref is the identity of a LineRef object.
Line(r, coptic, note) == [ref |-> r, coptic |-> coptic, note |-> note]

(* ------------------------------ read_text ------------------------------ *)

\* Number of fields of a row that read_text indexes (row[7] is the last).
NumFields == 8

\* Address cells of the rows: some page.line cells, and cells that do not
\* parse (empty, a line that is no number, three parts).
Tokens ==
  { <<"1", ".", "1">>, <<"1", ".", "2">>, <<"1", ".", "4">>,
    <<"2", ".", "5">>,
    <<>>, <<"1", ".", "x">>, <<"1", ".", "2", ".", "1">> }

\* Coptic cells of the rows: an empty one and one that every lint flags.
RowTexts ==
  {<<>>, <<" ", "a", OVERBAR, ",", SOFT_HYPHEN, "\n">>}

Notes == {<<>>}

\* A row of the file: the cells read_text uses and the row's length.
Row(tok, coptic, note, n) ==
  [tok |-> tok, coptic |-> coptic, note |-> note, nfields |-> n]

\* The loop variable `row` while it is not bound.
NoRow == Row(<<>>, <<>>, <<>>, -1)

\* The reference of a name that is not bound.
NoRef == 0

\* row[2] or row[7] raises IndexError.
RowRaises(r) == r.nfields < NumFields

NumberingOffAnyPage(newref, cur) == newref.line # cur.line + 1

NumberingOffGapOnly(newref, cur) ==
  newref.page = cur.page /\ newref.line > cur.line + 1

\* The test that guards the warning of read_text.
NumberingOff(newref, cur) ==
  newref.page = cur.page /\ newref.line # cur.line + 1

\* print(f'Warning: Line numbering off: Found {newref} following {ref}')
NumberingWarning(newref, cur) ==
  [kind |-> "numbering", found |-> RefStr(newref), following |-> RefStr(cur)]

SharedLineRef(h, r) == [heap |-> h, id |-> r]

\* lineref = LineRef(ref.page, ref.line): a new object with the value of
\* object r; the heap after the allocation and the new object's identity.
NewLineRef(h, r) ==
  [heap |-> Append(h, LineRef(h[r].page, h[r].line)), id |-> Len(h) + 1]

\* The address a Line carries, in heap h.
AddrIn(h, ln) == h[ln.ref]

Addr(ln) == AddrIn(heap, ln)

Init ==
  /\ pc = "header"
  /\ row = NoRow
  /\ heap = <<LineRef(0, 0)>>
  /\ ref = 1
  /\ text = <<>>
  /\ longest = 0
  /\ path = <<>>
  /\ out = <<>>
  /\ sgml = <<>>
  /\ html = <<>>
  /\ files = {}

\* header = reader.__next__(): the first row of the file is skipped.
ReadHeader ==
  /\ pc = "header"
  /\ pc' = "read"
  /\ UNCHANGED <<row, heap, ref, text, longest, path, out, sgml, html, files>>

\* One iteration of `for row in reader`.  path records which branch of
\* the try statement the row took.
ReadRow ==
  /\ pc = "read"
  /\ Len(path) < MaxRows
  /\ \E tok \in Tokens, coptic \in RowTexts, note \in Notes,
        n \in {NumFields - 1, NumFields} :
       LET r == Row(tok, coptic, note, n)
           ok == Parses(tok)
           newref == FromStr(tok)
           off == ok /\ NumberingOff(newref, heap[ref])
           heap1 == IF ok THEN Append(heap, newref)
                    ELSE [heap EXCEPT ![ref] = Increment(@)]
           ref1 == IF ok THEN Len(heap) + 1 ELSE ref
           made == NewLineRef(heap1, ref1)
       IN  /\ row' = r
           /\ IF RowRaises(r)
              THEN /\ pc' = "aborted"
                   /\ path' = Append(path, "raised")
                   /\ UNCHANGED <<heap, ref, text, longest, out>>
              ELSE /\ pc' = "read"
                   /\ out' = IF off
                             THEN Append(out, NumberingWarning(newref, heap[ref]))
                             ELSE out
                   /\ path' = Append(path, IF off THEN "warned"
                                           ELSE IF ok THEN "explicit"
                                           ELSE "inferred")
                   /\ ref' = ref1
                   /\ longest' = Max(longest, Len(coptic))
                   /\ heap' = made.heap
                   /\ text' = Append(text, Line(made.id, coptic, note))
  /\ UNCHANGED <<sgml, html, files>>

\* The reader is exhausted: print the longest length and return the list;
\* the locals row, ref and longest go out of scope.
EndOfFile ==
  /\ pc = "read"
  /\ pc' = "analyse"
  /\ out' = Append(out, [kind |-> "longest", n |-> longest])
  /\ row' = NoRow
  /\ ref' = NoRef
  /\ longest' = 0
  /\ UNCHANGED <<heap, text, path, sgml, html, files>>

(* ---------------------------- lint passes ----------------------------- *)

RECURSIVE PassMsgs(_, _)
\* What a pass prints for the first n lines, in order: msgs[i] is what the
\* body of its loop prints for line i.
PassMsgs(msgs, n) == IF n = 0 THEN <<>> ELSE PassMsgs(msgs, n - 1) \o msgs[n]

\* The number of lines a pass gets through: all of them, or those before
\* the first line on which the body of its loop raises (raises[i]).
Completed(raises) ==
  LET bad == {i \in 1..Len(raises) : raises[i]}
  IN  IF bad = {} THEN Len(raises)
      ELSE (CHOOSE i \in bad : \A j \in bad : i <= j) - 1

\* The label analyse_chars prints for a character.
CharLabel(key) ==
  IF Combining(key) THEN <<"U+25CC", key>>
  ELSE IF IsPrintable(key) THEN <<key>>
  ELSE <<" ">>

\* The characters of a str.
CharsOf(s) == {s[i] : i \in 1..Len(s)}

RECURSIVE CharSet(_)
\* chars after the first n lines have been added to it.
CharSet(n) ==
  IF n = 0 THEN {} ELSE CharSet(n - 1) \cup CharsOf(text[n].coptic)

\* Every character, in code point order.
AllKeys ==
  [k \in 1..Cardinality(DOMAIN CodePoint) |->
     CHOOSE c \in DOMAIN CodePoint :
       Cardinality({d \in DOMAIN CodePoint : Ord(d) < Ord(c)}) = k - 1]

\* keys = list(chars); keys.sort(): the characters of the set in code
\* point order.
SortKeys(chars) == SelectSeq(AllKeys, LAMBDA c : c \in chars)

\* The line analyse_chars prints for each key: its label and code point.
CharLines(keys) ==
  [k \in 1..Len(keys) |->
     [kind |-> "char", label |-> CharLabel(keys[k]), code |-> Ord(keys[k])]]

\* analyse_chars: the characters used in the text, in code point order,
\* each with its label and code point.
CharReport ==
  <<[kind |-> "chars"]>> \o CharLines(SortKeys(CharSet(Len(text))))

RECURSIVE Bars(_, _)
\* The offsets of all U+0304 at or after offset `from`, by repeated find.
Bars(coptic, from) ==
  LET match == Find(coptic, MACRON, from)
  IN  IF match < 0 THEN <<>> ELSE <<match>> \o Bars(coptic, match + 1)

RECURSIVE AdjacentFrom(_, _, _)
\* The loop over bars, entered with `last`.
AdjacentFrom(bars, last, ln) ==
  IF bars = <<>> THEN <<>>
  ELSE (IF Head(bars) = last + 2
        THEN <<[kind |-> "adjacent macrons", ref |-> RefStr(Addr(ln)),
                col |-> Spaces(last)]>>
        ELSE <<>>) \o AdjacentFrom(Tail(bars), Head(bars), ln)

\* coptic.index('̄') raises ValueError.
MacronsRaises(ln) ==
  Count(ln.coptic, MACRON) > 1 /\ ~Contains(ln.coptic, MACRON)

\* check_macrons, the body of the loop for one line.
MacronMsgs(ln) ==
  (IF Contains(ln.coptic, OVERBAR)
   THEN <<[kind |-> "overbar", ref |-> RefStr(Addr(ln)),
           col |-> Spaces(Find(ln.coptic, OVERBAR, 0))]>>
   ELSE <<>>)
  \o
  (IF Contains(ln.coptic, COMBINING_NI)
   THEN <<[kind |-> "combining ni", ref |-> RefStr(Addr(ln)),
           col |-> Spaces(Find(ln.coptic, COMBINING_NI, 0))]>>
   ELSE <<>>)
  \o
  (IF Count(ln.coptic, MACRON) > 1
   THEN AdjacentFrom(Bars(ln.coptic, 0), -2, ln)
   ELSE <<>>)

\* check_punctuation, the body of the loop for one line.
PunctuationMsgs(ln) ==
  IF Contains(ln.coptic, ".")
  THEN <<[kind |-> "period", ref |-> RefStr(Addr(ln)),
          col |-> Spaces(Find(ln.coptic, ".", 0))]>>
  ELSE IF Contains(ln.coptic, ",")
  THEN <<[kind |-> "comma", ref |-> RefStr(Addr(ln)),
          col |-> Spaces(Find(ln.coptic, ".", 0))]>>
  ELSE <<>>

\* s[:n]
First(s, n) == SubSeq(s, 1, IF n < Len(s) THEN n ELSE Len(s))

\* s[-n:]
Last(s, n) == SubSeq(s, Max(Len(s) - n, 0) + 1, Len(s))

\* str.isspace() of a string: not empty and all white.
IsSpaceStr(s) == Len(s) > 0 /\ \A i \in 1..Len(s) : IsSpace(s[i])

WhitespaceRaisesUnguarded(ln) == Len(ln.coptic) = 0

\* line.coptic[0] raises IndexError: the text is empty where it is indexed.
WhitespaceRaises(ln) == ln.coptic # Strip(ln.coptic) /\ Len(ln.coptic) = 0

\* check_whitespace, the body of the loop for one line.
WhitespaceMsgs(ln) ==
  IF ln.coptic = Strip(ln.coptic) THEN <<>>
  ELSE LET leading == IsSpace(ln.coptic[1])
           trailing == IsSpaceStr(First(ln.coptic, 1))
       IN  IF EndsWith(ln.coptic, "\n")
           THEN <<[kind |-> "extra newline", ref |-> RefStr(Addr(ln)),
                   show |-> SubSeq(Last(ln.coptic, 10), 1,
                                   Len(Last(ln.coptic, 10)) - 1)]>>
           ELSE IF leading /\ trailing
           THEN <<[kind |-> "leading and trailing", ref |-> RefStr(Addr(ln)),
                   show |-> First(ln.coptic, 5) \o Last(ln.coptic, 5)]>>
           ELSE IF leading
           THEN <<[kind |-> "leading", ref |-> RefStr(Addr(ln)),
                   show |-> First(ln.coptic, 10)]>>
           ELSE <<[kind |-> "trailing", ref |-> RefStr(Addr(ln)),
                   show |-> Last(ln.coptic, 10)]>>

\* check_continuations, the body of the loop for one line.
ContinuationMsgs(ln) ==
  IF Contains(ln.coptic, SOFT_HYPHEN)
  THEN <<[kind |-> "soft hyphen", ref |-> RefStr(Addr(ln))]>>
  ELSE <<>>

AnalyseChars ==
  /\ pc = "analyse"
  /\ out' = out \o CharReport
  /\ pc' = "macrons"
  /\ UNCHANGED <<row, heap, ref, text, longest, path, sgml, html, files>>

\* Per line, what the body of the loop of check_macrons prints.
MacronLines == [i \in 1..Len(text) |-> MacronMsgs(text[i])]

\* The number of lines check_macrons gets through.
MacronsDone == Completed([i \in 1..Len(text) |-> MacronsRaises(text[i])])

\* check_macrons: it prints the messages of the lines it gets through and
\* returns, or an exception leaves handle_file.
CheckMacrons ==
  /\ pc = "macrons"
  /\ out' = out \o PassMsgs(MacronLines, MacronsDone)
  /\ pc' = IF MacronsDone = Len(text) THEN "punctuation" ELSE "aborted"
  /\ UNCHANGED <<row, heap, ref, text, longest, path, sgml, html, files>>

\* Per line, what the body of the loop of check_punctuation prints.
PunctuationLines == [i \in 1..Len(text) |-> PunctuationMsgs(text[i])]

\* check_punctuation
CheckPunctuation ==
  /\ pc = "punctuation"
  /\ out' = out \o PassMsgs(PunctuationLines, Len(text))
  /\ pc' = "whitespace"
  /\ UNCHANGED <<row, heap, ref, text, longest, path, sgml, html, files>>

\* Per line, what the body of the loop of check_whitespace prints.
WhitespaceLines == [i \in 1..Len(text) |-> WhitespaceMsgs(text[i])]

\* The number of lines check_whitespace gets through.
WhitespaceDone ==
  Completed([i \in 1..Len(text) |-> WhitespaceRaises(text[i])])

\* check_whitespace: as check_macrons.
CheckWhitespace ==
  /\ pc = "whitespace"
  /\ out' = out \o PassMsgs(WhitespaceLines, WhitespaceDone)
  /\ pc' = IF WhitespaceDone = Len(text) THEN "continuations" ELSE "aborted"
  /\ UNCHANGED <<row, heap, ref, text, longest, path, sgml, html, files>>

\* Per line, what the body of the loop of check_continuations prints.
ContinuationLines == [i \in 1..Len(text) |-> ContinuationMsgs(text[i])]

\* check_continuations
CheckContinuations ==
  /\ pc = "continuations"
  /\ out' = out \o PassMsgs(ContinuationLines, Len(text))
  /\ pc' = "sgml"
  /\ UNCHANGED <<row, heap, ref, text, longest, path, sgml, html, files>>

(* ------------------------------ renderers ------------------------------ *)

\* The local `page` holds None (no element) or an int (one element).
None == <<>>

Some(n) == <<n>>

\* `if page:` is taken: None and 0 are false.
Truthy(page) == page # None /\ page[1] # 0

PB_EDI == <<"<", "p", "b", " ", "e", "d", "i", "=", "\"", "M", ".", "5", "8",
            "3", "\"", ">">>

NOTE_SIC == <<"<", "n", "o", "t", "e", " ", "n", "o", "t", "e", "=", "\"",
              "s", "i", "c", "\"", ">">>

\* The text after the inline markup is converted.
Inline(coptic) ==
  Replace(Replace(coptic, <<"*">>, PB_EDI), <<"(", "s", "i", "c", ")">>, NOTE_SIC)

LineBodyKeepHyphen(coptic) ==
  IF EndsWith(Inline(coptic), "-") THEN Inline(coptic)
  ELSE Inline(coptic) \o <<"_">>

\* The text construct_sgml writes between <lb ...> and </lb>.
LineBody(coptic) ==
  IF EndsWith(Inline(coptic), "-")
  THEN SubSeq(Inline(coptic), 1, Len(Inline(coptic)) - 1)
  ELSE Inline(coptic) \o <<"_">>

\* The value of `page` when the loop of construct_sgml reaches line i:
\* None at the first line, then the page of the line before, which the
\* loop assigned to it if it did not hold it already.
PageBefore(i) == IF i = 1 THEN None ELSE Some(Addr(text[i - 1]).page)

\* What one iteration of the loop of construct_sgml appends for line i.
SgmlLine(i) ==
  (IF Some(Addr(text[i]).page) # PageBefore(i)
   THEN (IF Truthy(PageBefore(i)) THEN <<[tag |-> "/pb"]>> ELSE <<>>)
        \o <<[tag |-> "pb", n |-> IntToStr(Addr(text[i]).page)]>>
   ELSE <<>>)
  \o <<[tag |-> "lb", n |-> IntToStr(Addr(text[i]).line),
        body |-> LineBody(text[i].coptic)]>>

\* construct_sgml: the fragment as the sequence of the pieces appended to it.
ConstructSgml ==
  LET f[i \in 0..Len(text)] ==
        IF i = 0 THEN <<[tag |-> "!DOCTYPE"]>> ELSE f[i - 1] \o SgmlLine(i)
  IN  f[Len(text)] \o <<[tag |-> "/pb"]>>

\* construct_markdown: the heading row, the divider row, a row per line.
ConstructMarkdown ==
  <<[md |-> "headings"], [md |-> "dividers"]>> \o
  [i \in 1..Len(text) |->
     [md |-> "row",
      cells |-> RefStr(Addr(text[i])) \o <<"|">> \o Strip(text[i].coptic)]]

\* construct_html: the preamble, the rendered table (the markdown package
\* is not part of this program: its output stands for its input), the footer.
ConstructHtml == <<"header", ConstructMarkdown, "footer">>

\* sgml = construct_sgml(text), then the file is written.
WriteSgml ==
  /\ pc = "sgml"
  /\ sgml' = ConstructSgml
  /\ out' = Append(out, [kind |-> "writing", file |-> "sgml"])
  /\ files' = files \cup {"sgml"}
  /\ pc' = "html"
  /\ UNCHANGED <<row, heap, ref, text, longest, path, html>>

\* html = construct_html(text), then the file is written.
WriteHtml ==
  /\ pc = "html"
  /\ html' = ConstructHtml
  /\ out' = Append(out, [kind |-> "writing", file |-> "html"])
  /\ files' = files \cup {"html"}
  /\ pc' = "done"
  /\ UNCHANGED <<row, heap, ref, text, longest, path, sgml>>

(* --------------------------- specifications ---------------------------- *)

\* The passes and renderers of handle_file after read_text has returned.
Lint ==
  \/ AnalyseChars
  \/ CheckMacrons
  \/ CheckPunctuation
  \/ CheckWhitespace
  \/ CheckContinuations
  \/ WriteSgml
  \/ WriteHtml

Next == ReadHeader \/ ReadRow \/ EndOfFile \/ Lint

\* handle_file on any file of a header and at most MaxRows rows.
Spec == Init /\ [][Next]_vars

\* The program runs on: a single thread, no step of it waits.
FairSpec == Spec /\ WF_vars(Next)

RECURSIVE Texts(_, _)
\* The concatenations of at most n pieces.
Texts(pieces, n) ==
  IF n = 0 THEN {<<>>}
  ELSE LET shorter == Texts(pieces, n - 1)
       IN  shorter \cup {t \o p : t \in shorter, p \in pieces}

\* Lines of text for the passes: white space, macrons, punctuation, and the
\* inline markup of the SGML fragment.
LintTexts ==
  Texts({<<" ">>, <<"\n">>, <<"a">>}, MaxLen)
    \cup Texts({<<MACRON>>, <<"a">>}, MaxLen + 1)
    \cup Texts({<<".">>, <<",">>, <<"a">>, <<MIDDLE_DOT>>}, MaxLen)
    \cup Texts({<<"a">>, <<"-">>, <<"*">>, <<"(">>,
                <<"(", "s", "i", "c", ")">>}, MaxLen)

\* The state in which read_text returns from a file of one row, addressed
\* 1.1, with any of the texts above.
InitLint ==
  \E coptic \in LintTexts :
    /\ pc = "analyse"
    /\ row = NoRow
    /\ heap = <<LineRef(0, 0), LineRef(1, 1), LineRef(1, 1)>>
    /\ ref = NoRef
    /\ text = <<Line(3, coptic, <<>>)>>
    /\ longest = 0
    /\ path = <<"explicit">>
    /\ out = <<[kind |-> "longest", n |-> Len(coptic)]>>
    /\ sgml = <<>>
    /\ html = <<>>
    /\ files = {}

\* The passes and renderers on every one-line text.
LintSpec == InitLint /\ [][Lint]_vars

(* ------------------------------- claims -------------------------------- *)

\* The address of the line before the one being read: the last line of the
\* list, or 0.0 when the list is empty.
PrevAddr == IF text = <<>> THEN LineRef(0, 0) ELSE Addr(text[Len(text)])

\* The address of the line a step appends.
NewAddr == AddrIn(heap', text'[Len(text')])

\* A step reads a row (of enough fields or not).
RowRead == Len(path') = Len(path) + 1

\* The messages of out of the given kinds, in order.
OfKind(kinds) == SelectSeq(out, LAMBDA m : m.kind \in kinds)

\* The addresses of the lines of the list, as text.
Addresses == [i \in 1..Len(text) |-> RefStr(Addr(text[i]))]

AfterPass(stages) == pc \in stages

\* C1, each row: a numbering warning is printed for the row exactly when its
\* cell parses to an address on the page of the previous row's address (0.0
\* before the first row) whose line is not that line plus one; the warning
\* names the cell's address and the previous one, and the line gets the
\* address written in the cell.
C1_RowStep ==
  (RowRead /\ ~RowRaises(row')) =>
    LET tok == row'.tok
        gap == /\ Parses(tok)
               /\ FromStr(tok).page = PrevAddr.page
               /\ FromStr(tok).line # PrevAddr.line + 1
    IN  /\ Len(text') = Len(text) + 1
        /\ gap => out' = Append(out, [kind |-> "numbering", found |-> tok,
                                      following |-> RefStr(PrevAddr)])
        /\ ~gap => out' = out
        /\ Parses(tok) => RefStr(NewAddr) = tok

\* C1, the example: rows addressed 1.1, 1.2, 1.4 give exactly one warning,
\* 1.4 following 1.2.
C1_Example ==
  ( /\ Addresses = << <<"1", ".", "1">>, <<"1", ".", "2">>, <<"1", ".", "4">> >>
    /\ \A i \in 1..Len(path) : path[i] # "inferred" )
  => OfKind({"numbering"}) =
       <<[kind |-> "numbering", found |-> <<"1", ".", "4">>,
          following |-> <<"1", ".", "2">>]>>

\* C1: a numbering warning is printed for a row if and only if its address
\* parses, is on the cursor's page and its line is not the cursor's line
\* plus one; the warning names both addresses and the explicit address is
\* kept; rows 1.1, 1.2, 1.4 give one warning, 1.4 following 1.2.
C1_NumberingWarning == [][C1_RowStep]_vars /\ []C1_Example

\* Rows 1.1, 1.2, 1.4 were read and the warning was printed.
C1_Witness ==
  /\ Addresses = << <<"1", ".", "1">>, <<"1", ".", "2">>, <<"1", ".", "4">> >>
  /\ path = <<"explicit", "explicit", "warned">>
  /\ Len(OfKind({"numbering"})) = 1

\* C2, each row: a row of enough fields whose cell does not parse is
\* appended with the previous address, line plus one, prints nothing and
\* leaves the loop running.
C2_RowStep ==
  (RowRead /\ ~RowRaises(row') /\ ~Parses(row'.tok)) =>
    /\ Len(text') = Len(text) + 1
    /\ NewAddr = LineRef(PrevAddr.page, PrevAddr.line + 1)
    /\ out' = out
    /\ pc' = "read"
    /\ path'[Len(path')] = "inferred"

\* C2, runs: k rows in a row that took the except branch after address p.l
\* (0.0 before the first row) carry p.(l+1) ... p.(l+k).
C2_Runs ==
  \A i \in 0..Len(text), j \in 1..Len(text) :
    (i < j /\ \A k \in (i + 1)..j : path[k] = "inferred") =>
      LET base == IF i = 0 THEN LineRef(0, 0) ELSE Addr(text[i])
      IN  Addr(text[j]) = LineRef(base.page, base.line + (j - i))

\* C2: a row whose address does not parse gets the previous row's address
\* with the line increased by one and the page unchanged (k such rows after
\* p.l get p.(l+1) ... p.(l+k)); no warning is printed for it and reading
\* goes on.
C2_InferredAddress == [][C2_RowStep]_vars /\ []C2_Runs

\* Two unparsable rows follow 2.5 and carry 2.6 and 2.7.
C2_Witness ==
  /\ Len(text) = 3
  /\ path[2] = "inferred" /\ path[3] = "inferred"
  /\ Addresses = << <<"2", ".", "5">>, <<"2", ".", "6">>, <<"2", ".", "7">> >>

\* C3 as stated: whenever a line is on the page of some earlier line and
\* its line number is not greater than that line's, a numbering warning was
\* printed for it.
C3_EveryViolationReported ==
  \A i \in 1..Len(text), j \in 1..Len(text) :
    ( /\ i < j
      /\ Addr(text[j]).page = Addr(text[i]).page
      /\ Addr(text[j]).line <= Addr(text[i]).line )
    => path[j] = "warned"

\* C3 amended: whenever a line is on the page of the line just before it
\* and its line number is not greater than that line's, a numbering warning
\* was printed for it (one warning per row so marked).
C3_ConsecutiveViolationReported ==
  /\ \A j \in 2..Len(text) :
       ( /\ Addr(text[j]).page = Addr(text[j - 1]).page
         /\ Addr(text[j]).line <= Addr(text[j - 1]).line )
       => path[j] = "warned"
  /\ Len(OfKind({"numbering"})) =
       Cardinality({j \in 1..Len(path) : path[j] = "warned"})

\* A line repeats or goes back on the line just before it, and was warned.
C3_Witness ==
  \E j \in 2..Len(text) :
    /\ Addr(text[j]).page = Addr(text[j - 1]).page
    /\ Addr(text[j]).line <= Addr(text[j - 1]).line
    /\ path[j] = "warned"
    /\ Len(OfKind({"numbering"})) >= 1

\* The page and line markers the claim C4 describes for the list: an open
\* marker before the first line, a close and an open marker at every line
\* whose page differs from the previous line's, a line marker per line, one
\* close marker at the end.
ExpectedMarkers ==
  LET f[i \in 0..Len(text)] ==
        IF i = 0 THEN <<>>
        ELSE f[i - 1] \o
             (IF i = 1 THEN <<"pb">>
              ELSE IF Addr(text[i]).page # Addr(text[i - 1]).page
                   THEN <<"/pb", "pb">>
                   ELSE <<>>)
             \o <<"lb">>
  IN  f[Len(text)] \o <<"/pb">>

\* The markers of the fragment, after the document type line.
Markers == [i \in 1..(Len(sgml) - 1) |-> sgml[i + 1].tag]

\* C4: for every non-empty list the page markers of the fragment alternate
\* open and close: one open before the first line, close then open at every
\* change of page, none between lines of one page, one close at the end;
\* as many opens as closes, and one line marker per line.
C4_PageMarkersAlternate ==
  ("sgml" \in files /\ text # <<>>) =>
    /\ Markers = ExpectedMarkers
    /\ Len(SelectSeq(Markers, LAMBDA t : t = "pb")) =
         Len(SelectSeq(Markers, LAMBDA t : t = "/pb"))

WhitespaceKinds == {"extra newline", "leading and trailing", "leading", "trailing"}

\* C5: check_whitespace prints nothing for a text equal to its stripped
\* form, and else exactly one message: extra newline if the text ends with
\* a newline, else both if the first and the last character are white, else
\* leading if the first is, else trailing.
C5_WhitespaceMessage ==
  AfterPass({"continuations", "sgml", "html", "done"}) =>
    \A i \in 1..Len(text) :
      LET s == text[i].coptic
          got == SelectSeq(OfKind(WhitespaceKinds),
                           LAMBDA m : m.ref = RefStr(Addr(text[i])))
      IN  IF s = Strip(s) THEN got = <<>>
          ELSE /\ Len(got) = 1
               /\ got[1].kind =
                    IF s[Len(s)] = "\n" THEN "extra newline"
                    ELSE IF IsSpace(s[1]) /\ IsSpace(s[Len(s)])
                         THEN "leading and trailing"
                    ELSE IF IsSpace(s[1]) THEN "leading"
                    ELSE "trailing"

\* C6: check_macrons prints the adjacent-macron warning for a line if and
\* only if two U+0304 of its text have exactly one base character between
\* them, wherever the first U+0304 sits.
C6_AdjacentMacrons ==
  AfterPass({"punctuation", "whitespace", "continuations", "sgml", "html", "done"}) =>
    \A i \in 1..Len(text) :
      LET s == text[i].coptic
          got == SelectSeq(OfKind({"adjacent macrons"}),
                           LAMBDA m : m.ref = RefStr(Addr(text[i])))
      IN  (got # <<>>) <=>
            \E k \in 1..(Len(s) - 2) :
              s[k] = MACRON /\ s[k + 1] # MACRON /\ s[k + 2] = MACRON

\* The offset of the first ch of s.
FirstOffset(s, ch) ==
  (CHOOSE k \in 1..Len(s) : s[k] = ch /\ \A j \in 1..(k - 1) : s[j] # ch) - 1

\* C7: check_punctuation prints nothing for a text without period and
\* comma, one period error at the column of the first period for a text
\* with a period, and one comma error at the column of the first comma for
\* a text with a comma and no period.
C7_PunctuationColumn ==
  AfterPass({"whitespace", "continuations", "sgml", "html", "done"}) =>
    \A i \in 1..Len(text) :
      LET s == text[i].coptic
          got == SelectSeq(OfKind({"period", "comma"}),
                           LAMBDA m : m.ref = RefStr(Addr(text[i])))
      IN  IF Contains(s, ".")
          THEN got = <<[kind |-> "period", ref |-> RefStr(Addr(text[i])),
                        col |-> FirstOffset(s, ".")]>>
          ELSE IF Contains(s, ",")
          THEN got = <<[kind |-> "comma", ref |-> RefStr(Addr(text[i])),
                        col |-> FirstOffset(s, ",")]>>
          ELSE got = <<>>

\* The line markers of the fragment, in order.
LineMarkers == SelectSeq(sgml, LAMBDA m : m.tag = "lb")

\* C8: for every line, with the inline markup converted, the line marker
\* carries the text less its final hyphen and no underscore if the text
\* ends with a hyphen, and the text plus one underscore if not.
C8_HyphenOrUnderscore ==
  "sgml" \in files =>
    /\ Len(LineMarkers) = Len(text)
    /\ \A i \in 1..Len(text) :
         LET s == Inline(text[i].coptic)
             body == LineMarkers[i].body
         IN  IF Len(s) > 0 /\ s[Len(s)] = "-"
             THEN body \o <<"-">> = s
             ELSE body = s \o <<"_">>

\* A line of inline markup that ends with a hyphen was rendered.
C8_Witness ==
  /\ "sgml" \in files
  /\ text[1].coptic = <<"*", "(", "s", "i", "c", ")", "-">>
  /\ LineMarkers[1].body = PB_EDI \o NOTE_SIC

\* The stages of handle_file, in order.
Stages ==
  <<"header", "read", "analyse", "macrons", "punctuation", "whitespace",
    "continuations", "sgml", "html", "done">>

\* A row of too few fields was read.
ShortRow == row # NoRow /\ RowRaises(row)

\* C9, order: the stage advances one place at a time, and the run is left
\* early only on a row of too few fields.
C9_Step ==
  pc' # pc =>
    \/ \E k \in 1..(Len(Stages) - 1) : pc = Stages[k] /\ pc' = Stages[k + 1]
    \/ pc' = "aborted" /\ ShortRow'

\* C9, files: the SGML file is written by the step that leaves stage sgml,
\* the HTML file by the step that leaves stage html.
C9_Files ==
  /\ "sgml" \in files <=> pc \in {"html", "done"}
  /\ "html" \in files <=> pc = "done"

\* C9: on rows of at least 8 fields, whatever the lints report, handle_file
\* runs read_text, analyse_chars, check_macrons, check_punctuation,
\* check_whitespace, check_continuations, the SGML write and the HTML write
\* in this order, is not aborted, and ends with both files written.
C9_PipelineCompletes ==
  /\ [][C9_Step]_vars
  /\ []C9_Files
  /\ <>(pc = "done" \/ ShortRow)

\* A run ended with both files written after warnings and errors.
C9_Witness ==
  /\ pc = "done"
  /\ files = {"sgml", "html"}
  /\ Len(text) >= 2
  /\ OfKind({"numbering"}) # <<>>
  /\ OfKind({"overbar"}) # <<>>
  /\ OfKind({"comma"}) # <<>>
  /\ OfKind({"extra newline"}) # <<>>
  /\ OfKind({"soft hyphen"}) # <<>>

\* C10, each step: the address of every line of the list stays what it is,
\* and a line appended carries the value of the cursor at that time.
C10_Step ==
  /\ \A i \in 1..Len(text) : AddrIn(heap', text'[i]) = Addr(text[i])
  /\ Len(text') = Len(text) + 1 => NewAddr = heap'[ref']

\* C10, sharing: no line holds the cursor object, nor the object of
\* another line.
C10_NoSharing ==
  \A i \in 1..Len(text) :
    /\ text[i].ref # ref
    /\ \A j \in 1..Len(text) : i # j => text[i].ref # text[j].ref

\* C10: once a line is appended its address never changes while later rows
\* are read; an unparsable row changes the cursor only; no line shares its
\* address object with the cursor.
C10_AddressSnapshots == [][C10_Step]_vars /\ []C10_NoSharing

\* An unparsable row was read after a line was appended: the cursor moved
\* on and the earlier line kept its address.
C10_Witness ==
  /\ pc = "read"
  /\ Len(text) >= 2
  /\ path[Len(path)] = "inferred"
  /\ heap[ref] # Addr(text[1])
  /\ Addr(text[1]).line + 1 = Addr(text[2]).line

====
